---- MODULE Spec2Model ----
(***************************************************************************)
(* latency-measure: an orchestrator (client/src/main.rs) that asks remote  *)
(* measure services (service/src/main.rs) to probe an HTTP target, a fixed *)
(* number of times per service, and collects the samples per service.      *)
(*                                                                         *)
(* Spec         the orchestrator run, every probe call answered by the     *)
(*              service handlers below.                                    *)
(* SpecService  the service alone, handling arbitrary requests.            *)
(***************************************************************************)
EXTENDS Integers, Sequences, FiniteSets, TLC

VARIABLES
    args,                \* CliArgs as parsed (never changes after Init)
    runtime,             \* Runtime.jobs; None when Runtime::new failed
    results,             \* Runtime.results: service ip -> Vec<MeasureResponse>
    comparison_results,  \* Runtime.comparison_results: Option<map>
    pc,                  \* position of Runtime::start / run / measure
    widx,                \* index of the `for service_ip in services` loop
    phase,               \* which measure() call of run(): "target" | "comparison"
    req,                 \* the RequestBuilder made by make_request
    i,                   \* loop variable of measure()
    buf,                 \* local Vec of measure()
    inflight,            \* probe calls sent and not yet returned to the caller
    err,                 \* the error start() returned, if any
    table,               \* rows printed by start(), per service ip
    files,               \* snapshots written by start()
    log,                 \* history of calls, returns and sleeps (observer)
    conns                \* service side: the requests being handled

vars == <<args, runtime, results, comparison_results, pc, widx, phase, req, i, buf,
          inflight, err, table, files, log, conns>>

clientVars == <<args, runtime, results, comparison_results, pc, widx, phase, req, i,
                buf, inflight, err, table, files, log>>

(***************************************************************************)
(* Bounds of the model.                                                    *)
(***************************************************************************)
MaxWorkers == 2
MaxTimes == 2
MaxConns == 1
SchedulerThreads == 1

(***************************************************************************)
(* Option<T>, String and HashMap.                                          *)
(***************************************************************************)
None == << >>
Some(x) == <<x>>
IsSome(o) == o # None
Unwrap(o) == o[1]
UnwrapOr(o, d) == IF o = None THEN d ELSE o[1]

EmptyMap == [k \in {} |-> << >>]
\* (mutant) an insert that leaves an existing entry alone.
MapInsertIfAbsent(m, k, v) == [x \in (DOMAIN m) \cup {k} |-> IF x \in DOMAIN m THEN m[x] ELSE v]
MapInsert(m, k, v) == [x \in (DOMAIN m) \cup {k} |-> IF x = k THEN v ELSE m[x]]

\* A string whose letters matter is a sequence of characters. A character
\* is written as a one-letter string, or as "U+XXXX" (its code point) when
\* it lies outside ASCII.
Lower == <<"a","b","c","d","e","f","g","h","i","j","k","l","m",
           "n","o","p","q","r","s","t","u","v","w","x","y","z">>
Upper == <<"A","B","C","D","E","F","G","H","I","J","K","L","M",
           "N","O","P","Q","R","S","T","U","V","W","X","Y","Z">>

\* The characters outside ASCII the model's strings are made of: long s,
\* dotless i, sharp s, the st ligature, e with acute and its capital.
NonAscii == {"U+017F", "U+0131", "U+00DF", "U+FB06", "U+00E9", "U+00C9"}

\* char::to_uppercase, the Unicode upper case of one character: a sequence
\* of one character or more. A character with no upper case is unchanged.
ToUpperChar(c) ==
    IF \E n \in 1..Len(Lower) : Lower[n] = c
    THEN <<Upper[CHOOSE n \in 1..Len(Lower) : Lower[n] = c]>>
    ELSE IF c = "U+017F" THEN <<"S">>
    ELSE IF c = "U+0131" THEN <<"I">>
    ELSE IF c = "U+00DF" THEN <<"S", "S">>
    ELSE IF c = "U+FB06" THEN <<"S", "T">>
    ELSE IF c = "U+00E9" THEN <<"U+00C9">>
    ELSE <<c>>

\* str::to_uppercase: the upper cases of the characters, one after another.
RECURSIVE to_uppercase(_)
to_uppercase(s) ==
    IF s = << >> THEN << >>
    ELSE ToUpperChar(Head(s)) \o to_uppercase(Tail(s))

GET == <<"G","E","T">>
POST == <<"P","O","S","T">>
PUT == <<"P","U","T">>
DELETE == <<"D","E","L","E","T","E">>

(***************************************************************************)
(* The target side: URLs and what a probe of them can meet.                *)
(***************************************************************************)
\* A URL: its text, whether its scheme is TLS-secured and whether its host
\* is an IP literal.
TargetUrl == [text |-> "https://target.example/", tls |-> TRUE, literal |-> FALSE]
CompUrl == [text |-> "http://10.0.0.9/", tls |-> FALSE, literal |-> TRUE]
Urls == {TargetUrl, CompUrl}

\* Final response statuses the target can answer with.
Statuses == {200, 204, 304, 404, 500}

\* Bodies: the text, whether serde_json parses it, and the text serde_json
\* writes back for the parsed value.
Bodies == {"{\"a\": 1}", "{\"a\":1}", "{oops", ""}
JsonValid(b) == b \in {"{\"a\": 1}", "{\"a\":1}"}
JsonToString(b) == IF b = "{\"a\": 1}" THEN "{\"a\":1}" ELSE b

\* A header map is a set of <<name, value>> pairs.
NoHeaders == {}
HeaderMaps == {{<<"accept", "text/plain">>}}

(***************************************************************************)
(* service/src/types.rs                                                    *)
(***************************************************************************)
Ok(v) == [ok |-> TRUE, val |-> v]
Err(e) == [ok |-> FALSE, err |-> e]

\* ttfb::DurationPair: a phase's duration relative to the end of the phase
\* before it, and the total since the probe began.
DurationPair(rel, before) == [relative |-> rel, total |-> before + rel]

\* What ttfb::ttfb(url, true) measures on a probe whose first byte took d ms:
\* DNS is skipped for an IP literal, TLS for a scheme that is not secured.
TtfbOutcome(url, d) ==
    LET dns == IF url.literal THEN None ELSE Some(DurationPair(4, 0))
        t1 == IF url.literal THEN 0 ELSE 4
        tcp == DurationPair(3, t1)
        tls == IF url.tls THEN Some(DurationPair(5, tcp.total)) ELSE None
        t2 == IF url.tls THEN tcp.total + 5 ELSE tcp.total
        snd == DurationPair(1, t2)
    IN  [ip_addr |-> IF url.literal THEN "10.0.0.9" ELSE "93.184.216.34",
         dns_lookup_duration |-> dns,
         tcp_connect_duration |-> tcp,
         tls_handshake_duration |-> tls,
         http_get_send_duration |-> snd,
         ttfb_duration |-> DurationPair(d, snd.total)]

OptRelative(o) == IF o = None THEN None ELSE Some(o[1].relative)

\* (mutant) the time to first byte, counted from the start of the probe, is
\* given as the overall duration.
FromTtfbOutcomeWithOverall(outcome) ==
    [ip |-> outcome.ip_addr,
     dns_lookup_duration |-> OptRelative(outcome.dns_lookup_duration),
     tcp_connect_duration |-> outcome.tcp_connect_duration.relative,
     http_get_send_duration |-> outcome.http_get_send_duration.relative,
     ttfb_duration |-> outcome.ttfb_duration.relative,
     tls_handshake_duration |-> OptRelative(outcome.tls_handshake_duration),
     overall_duration |-> Some(outcome.ttfb_duration.total)]

\* impl From<TtfbOutcome> for MeasureResponse
FromTtfbOutcome(outcome) ==
    [ip |-> outcome.ip_addr,
     dns_lookup_duration |-> OptRelative(outcome.dns_lookup_duration),
     tcp_connect_duration |-> outcome.tcp_connect_duration.relative,
     http_get_send_duration |-> outcome.http_get_send_duration.relative,
     ttfb_duration |-> outcome.ttfb_duration.relative,
     tls_handshake_duration |-> OptRelative(outcome.tls_handshake_duration),
     overall_duration |-> None]

\* enum MeasureError, of the variants Ttfb, BlockingTaskSpawn, Reqwest and
\* HttpError; `status` is the code an HttpError carries, 0 otherwise.
MeasureError(type, status) == [type |-> type, status |-> status]

\* MeasureError::BadRequest, the variant measure_duration names for a body
\* that is not JSON. The enum does not declare it: it is the error of a
\* malformed body, answered like the others as a server error with a
\* message.
MeasureErrorBadRequest == [type |-> "BadRequest", status |-> 0]

\* An HTTP response of the service: a JSON document or a plain text.
\* impl IntoResponse for MeasureError: status 500 and the error's text.
into_response(e) == [status |-> 500, json |-> None, text |-> Some(e)]

\* axum's Json(response): status 200 and the JSON document.
JsonResponse(r) == [status |-> 200, json |-> Some(r), text |-> None]

HttpReply(result) ==
    IF result.ok THEN JsonResponse(result.val) ELSE into_response(result.err)

(***************************************************************************)
(* service/src/main.rs                                                     *)
(***************************************************************************)
\* measure_ttfb, after the blocking task ended: `joined` is FALSE when the
\* task panicked (JoinError), else `probe` is what ttfb() returned.
measure_ttfb(joined, probe) ==
    IF ~joined THEN Err(MeasureError("BlockingTaskSpawn", 0))
    ELSE IF probe.ok THEN Ok(FromTtfbOutcome(probe.val))
    ELSE Err(MeasureError("Ttfb", 0))

\* (mutant) an unknown method is sent as POST.
ParseMethodDefaultPost(m) ==
    LET u == to_uppercase(m)
    IN  IF u = GET THEN "GET"
        ELSE IF u = POST THEN "POST"
        ELSE IF u = PUT THEN "PUT"
        ELSE IF u = DELETE THEN "DELETE"
        ELSE "POST"

\* The match on target.method.to_uppercase()
ParseMethod(m) ==
    LET u == to_uppercase(m)
    IN  IF u = GET THEN "GET"
        ELSE IF u = POST THEN "POST"
        ELSE IF u = PUT THEN "PUT"
        ELSE IF u = DELETE THEN "DELETE"
        ELSE "GET"

\* (mutant) the body is attached as it came, unparsed.
BuildDurationRequestRawBody(target) ==
    Ok([method |-> ParseMethod(target.method),
        url |-> target.target,
        headers |-> UnwrapOr(target.headers, NoHeaders),
        body |-> target.body])

\* measure_duration up to the send: the request it is about to send, or
\* BadRequest for a body that is not JSON.
BuildDurationRequest(target) ==
    LET base == [method |-> ParseMethod(target.method),
                 url |-> target.target,
                 headers |-> UnwrapOr(target.headers, NoHeaders),
                 body |-> None]
    IN  IF IsSome(target.body)
        THEN IF JsonValid(Unwrap(target.body))
             THEN Ok([base EXCEPT !.body = Some(JsonToString(Unwrap(target.body)))])
             ELSE Err(MeasureErrorBadRequest)
        ELSE Ok(base)

\* (mutant) every status below 400 counts as a success.
is_not_error(status) == status < 400

\* StatusCode::is_success
is_success(status) == 200 <= status /\ status <= 299

\* measure_duration from the response on: `exchange` is the result of
\* send().await, `duration` the time start.elapsed() read.
DurationResult(exchange, duration) ==
    IF exchange.ok
    THEN IF ~is_success(exchange.val)
         THEN Err(MeasureError("HttpError", exchange.val))
         ELSE Ok([ip |-> "",
                  dns_lookup_duration |-> None,
                  tcp_connect_duration |-> 0,
                  http_get_send_duration |-> 0,
                  ttfb_duration |-> 0,
                  tls_handshake_duration |-> None,
                  overall_duration |-> Some(duration)])
    ELSE Err(MeasureError("Reqwest", 0))

(***************************************************************************)
(* client/src/jobs.rs and client/src/main.rs: the configuration            *)
(***************************************************************************)
Addrs == {"http://w1:3000", "http://w2:3000"}

\* The lists --services can give: one address or more, up to n.
SeqsUpTo(S, n) == UNION {[1..k -> S] : k \in 1..n}

MethodArgs == {None, Some(GET), Some(<<"g","e","t">>), Some(POST)}
BodyArgs == {None, Some("{\"a\": 1}"), Some("{oops")}

\* struct CliArgs: the runs given --services and --target-request-url, and a
\* few runs given one of them, or neither.
ArgsSet ==
    [target_request_url : {Some(TargetUrl)},
     target_request_method : MethodArgs,
     target_request_body : BodyArgs,
     target_request_headers : {None} \cup {Some(h) : h \in HeaderMaps},
     comparison_url : {None, Some(CompUrl)},
     services : {Some(q) : q \in SeqsUpTo(Addrs, MaxWorkers)},
     times : 0..MaxTimes,
     delay : {500},
     output_dir : {None, Some("out")},
     flood : BOOLEAN]
    \cup
    [target_request_url : {None, Some(TargetUrl)},
     target_request_method : {None, Some(POST), Some(<<"p","o","U+017F","t">>)},
     target_request_body : {None, Some("{oops")},
     target_request_headers : {None},
     comparison_url : {None},
     services : {None} \cup {Some(q) : q \in SeqsUpTo(Addrs, 1)},
     times : 0..MaxTimes,
     delay : {0},
     output_dir : {None},
     flood : {FALSE}]

\* ../ts/outputs.json as the run finds it: None when it is not there, else
\* whether it parses as the JSON map the deployment writes and the
\* instanceLatencyService hosts that map holds.
OutputsFiles ==
    {None, Some([json |-> FALSE, hosts |-> {}]),
     Some([json |-> TRUE, hosts |-> {}]),
     Some([json |-> TRUE, hosts |-> {"w1", "w2"}])}

\* ../ts/CID.txt as the run finds it: None when it is not there, else its
\* text.
CidFiles == {None, Some("CID123\n")}

\* The orders a HashMap of these values can be iterated in.
Orders(S) ==
    {q \in [1..Cardinality(S) -> S] : \A m, n \in DOMAIN q : q[m] = q[n] => m = n}

\* try_read_service_ips: the results it can return on the file.
try_read_service_ips(file) ==
    IF file = None THEN {Err("No such file or directory (os error 2)")}
    ELSE IF ~Unwrap(file).json
    THEN {Err("failed to parse the json from outputs.json from deployment, please pass in a service ip to the CLI or complete the deployment process")}
    ELSE {Ok(q) : q \in Orders({"http://" \o h \o ":3000" : h \in Unwrap(file).hosts})}

\* try_get_deployed_url: the text of the file is appended as it is.
try_get_deployed_url(file) ==
    IF file = None
    THEN Err("error trying to read ts/CID.txt file from deployment, either pass in a target_url or a complete the deploymnet process")
    ELSE Ok([text |-> "https://fleek-test.network/services/1/ipfs/" \o Unwrap(file),
             tls |-> TRUE, literal |-> FALSE])

\* CliArgs::jobs. The two defaults are computed, and their errors returned,
\* whether or not the argument they stand in for is given: service_ips is
\* what try_read_service_ips returned, deployed_url what
\* try_get_deployed_url returned.
Jobs(a, service_ips, deployed_url) ==
    IF ~service_ips.ok THEN Err(service_ips.err)
    ELSE IF ~deployed_url.ok THEN Err(deployed_url.err)
    ELSE Ok([services |-> UnwrapOr(a.services, service_ips.val),
             target_url |-> UnwrapOr(a.target_request_url, deployed_url.val),
             target_method |-> UnwrapOr(a.target_request_method, GET),
             target_body |-> a.target_request_body,
             target_headers |-> a.target_request_headers,
             comparison_url |-> a.comparison_url])

jobs == Unwrap(runtime)
services == jobs.services
times == args.times
delay == args.delay

\* (mutant) the body is refused for GET only.
BodyWithGet(target_body, target_method) ==
    IsSome(target_body) /\ target_method = GET

\* The check at the top of Runtime::run
BodyWithoutPost(target_body, target_method) ==
    IsSome(target_body) /\ target_method # POST

\* (mutant) the method is compared in upper case.
make_request_any_case(service_ip, target_url, target_method, target_headers, target_body) ==
    IF to_uppercase(target_method) # GET
    THEN [service |-> service_ip,
          endpoint |-> "/duration",
          json |-> [target |-> target_url,
                    method |-> target_method,
                    headers |-> target_headers,
                    body |-> target_body]]
    ELSE [service |-> service_ip,
          endpoint |-> "/ttfb",
          json |-> [target |-> target_url]]

\* make_request: the call to POST to the service, as built once per series.
make_request(service_ip, target_url, target_method, target_headers, target_body) ==
    IF target_method # GET
    THEN [service |-> service_ip,
          endpoint |-> "/duration",
          json |-> [target |-> target_url,
                    method |-> target_method,
                    headers |-> target_headers,
                    body |-> target_body]]
    ELSE [service |-> service_ip,
          endpoint |-> "/ttfb",
          json |-> [target |-> target_url]]

(***************************************************************************)
(* The history the properties read.                                        *)
(***************************************************************************)
\* ev: "send" a call leaves, "ok" it returned a sample (res), "err" it
\* failed, "sleep" the delay after it (ms).
Event(ev, ms, res) ==
    [ev |-> ev, pos |-> widx, phase |-> phase, i |-> i, ms |-> ms, res |-> res]

Sends == {n \in 1..Len(log) : log[n].ev = "send"}
NSends == Cardinality(Sends)

(***************************************************************************)
(* Runtime::new                                                            *)
(***************************************************************************)
\* thread: where the request's code sits between two steps: "none" (it
\* awaits, holding no thread), "pool" (a thread of the blocking pool) or
\* "scheduler" (a thread of the runtime that accepts and polls requests).
\* late: the request arrived while another one's probe was blocking.
\* call: the orchestrator's call the request is (its id), 0 for a request
\* of another client.
IdleConn == [pc |-> "idle", endpoint |-> "", json |-> None, sent |-> None,
             env |-> None, result |-> None, thread |-> "none", late |-> FALSE,
             call |-> 0]

\* Runtime::new: with the jobs built the run is about to enter the loop of
\* start(); with an error from jobs() there is no Runtime and main returns
\* the error.
Init ==
    /\ args \in ArgsSet
    /\ \E outputs \in OutputsFiles, cid \in CidFiles :
          \E service_ips \in try_read_service_ips(outputs) :
             LET j == Jobs(args, service_ips, try_get_deployed_url(cid))
             IN  /\ runtime = IF j.ok THEN Some(j.val) ELSE None
                 /\ pc = IF j.ok THEN "loop" ELSE "failed"
                 /\ err = IF j.ok THEN None ELSE Some(j.err)
    /\ results = EmptyMap
    /\ comparison_results =
          IF IsSome(args.comparison_url) THEN Some(EmptyMap) ELSE None
    /\ widx = 1
    /\ phase = "target"
    /\ req = None
    /\ i = 0
    /\ buf = << >>
    /\ inflight = {}
    /\ table = EmptyMap
    /\ files = << >>
    /\ log = << >>
    /\ conns = [c \in 1..MaxConns |-> IdleConn]

(***************************************************************************)
(* Runtime::run, up to the first measure()                                 *)
(***************************************************************************)
RunWorker ==
    /\ pc = "loop"
    /\ widx <= Len(services)
    /\ IF BodyWithoutPost(jobs.target_body, jobs.target_method)
       THEN /\ pc' = "failed"
            /\ err' = Some("body is only supported for POST requests")
            /\ UNCHANGED <<req, phase, i, buf>>
       ELSE /\ req' = Some(make_request(services[widx], jobs.target_url,
                                        jobs.target_method, jobs.target_headers,
                                        jobs.target_body))
            /\ phase' = "target"
            /\ i' = 0
            /\ buf' = << >>
            /\ pc' = "measure"
            /\ err' = err
    /\ UNCHANGED <<args, runtime, results, comparison_results, widx, inflight, table,
                   files, log, conns>>

(***************************************************************************)
(* Runtime::measure                                                        *)
(***************************************************************************)
\* (mutant) the call leaves and the loop goes on without awaiting it.
SendNoAwait ==
    /\ pc = "measure"
    /\ i < times
    /\ inflight' = inflight \cup
          {[id |-> NSends + 1, pos |-> widx, phase |-> phase, i |-> i,
            req |-> Unwrap(req), reply |-> None]}
    /\ log' = Append(log, Event("send", 0, None))
    /\ i' = i + 1
    /\ UNCHANGED <<args, runtime, results, comparison_results, pc, widx, phase, req, buf,
                   err, table, files, conns>>

\* cloned.send(): the call leaves; the caller awaits its return.
Send ==
    /\ pc = "measure"
    /\ i < times
    /\ inflight' = inflight \cup
          {[id |-> NSends + 1, pos |-> widx, phase |-> phase, i |-> i,
            req |-> Unwrap(req), reply |-> None]}
    /\ log' = Append(log, Event("send", 0, None))
    /\ pc' = "await"
    /\ UNCHANGED <<args, runtime, results, comparison_results, widx, phase, req, i, buf,
                   err, table, files, conns>>

\* (mutant) the sample goes to the front of the buffer.
PushFront(b, res) == <<res>> \o b

\* buf.push(res)
PushSample(b, res) == Append(b, res)

\* (mutant) a failed call is skipped over: the run goes on with the next
\* service.
CallFailedSkipWorker(e) ==
    /\ buf' = << >>
    /\ pc' = "loop"
    /\ widx' = widx + 1
    /\ err' = err

\* (mutant) a failed call is tried again.
CallFailedRetry(e) ==
    /\ pc' = "measure"
    /\ UNCHANGED <<buf, widx, err>>

\* The `?` on a call's result, in measure(), run() and start(): the error
\* is returned up to main, the buffer is dropped, nothing else runs.
CallFailed(e) ==
    /\ buf' = << >>
    /\ pc' = "failed"
    /\ widx' = widx
    /\ err' = Some(e)

\* send().await? then .json::<MeasureResponse>().await? : the transport must
\* succeed and the body must be the JSON of a MeasureResponse; the status of
\* the response is not looked at.
Decode(reply) ==
    IF ~reply.ok THEN Err("error sending request")
    ELSE IF IsSome(reply.val.json) THEN Ok(Unwrap(reply.val.json))
    ELSE Err("error decoding response body")

\* (mutant) the caller waits for the return of the repetition after the one
\* it sent.
AwaitedNext(c) == c.pos = widx /\ c.phase = phase /\ c.i = i + 1 /\ IsSome(c.reply)

\* The call whose return measure() awaits: the one it just sent.
Awaited(c) == c.pos = widx /\ c.phase = phase /\ c.i = i /\ IsSome(c.reply)

Recv ==
    /\ pc = "await"
    /\ \E c \in inflight :
          /\ Awaited(c)
          /\ inflight' = inflight \ {c}
          /\ LET r == Decode(Unwrap(c.reply))
             IN  IF r.ok
                 THEN /\ buf' = PushSample(buf, r.val)
                      /\ pc' = "sleep"
                      /\ UNCHANGED <<widx, err>>
                      /\ log' = Append(log, Event("ok", 0, Some(r.val)))
                 ELSE /\ CallFailed(r.err)
                      /\ log' = Append(log, Event("err", 0, None))
    /\ UNCHANGED <<args, runtime, results, comparison_results, phase, req, i,
                   table, files, conns>>

\* (mutant) no sleep after the last repetition of a series.
SleepBetweenCalls ==
    /\ pc = "sleep"
    /\ log' = IF i + 1 < times THEN Append(log, Event("sleep", delay, None))
              ELSE log
    /\ i' = i + 1
    /\ pc' = "measure"
    /\ UNCHANGED <<args, runtime, results, comparison_results, widx, phase, req, buf,
                   inflight, err, table, files, conns>>

\* tokio::time::sleep(delay), then the next iteration
Sleep ==
    /\ pc = "sleep"
    /\ log' = Append(log, Event("sleep", delay, None))
    /\ i' = i + 1
    /\ pc' = "measure"
    /\ UNCHANGED <<args, runtime, results, comparison_results, widx, phase, req, buf,
                   inflight, err, table, files, conns>>

(***************************************************************************)
(* Runtime::run, from the return of a measure() on                         *)
(***************************************************************************)
\* (mutant) the comparison series is stored under the url it measured.
ComparisonKeyUrl(service_ip, url) == url.text

\* The key of a comparison series in comparison_results: service_ip.clone()
ComparisonKey(service_ip, url) == service_ip

MeasureReturn ==
    /\ pc = "measure"
    /\ i >= times
    /\ IF phase = "target"
       THEN /\ results' = MapInsert(results, services[widx], buf)
            /\ UNCHANGED comparison_results
       ELSE /\ comparison_results' =
                  Some(MapInsert(Unwrap(comparison_results),
                                 ComparisonKey(services[widx],
                                               Unwrap(jobs.comparison_url)),
                                 buf))
            /\ UNCHANGED results
    /\ IF phase = "target" /\ IsSome(jobs.comparison_url)
       THEN /\ req' = Some(make_request(services[widx], Unwrap(jobs.comparison_url),
                                        jobs.target_method, jobs.target_headers,
                                        jobs.target_body))
            /\ phase' = "comparison"
            /\ i' = 0
            /\ buf' = << >>
            /\ pc' = "measure"
            /\ widx' = widx
       ELSE /\ widx' = widx + 1
            /\ pc' = "loop"
            /\ buf' = << >>
            /\ UNCHANGED <<req, phase, i>>
    /\ UNCHANGED <<args, runtime, inflight, err, table, files, log, conns>>

(***************************************************************************)
(* Runtime::start, after the loop                                          *)
(***************************************************************************)
\* Runtime::output
Output == [target_results |-> results, comparison_results |-> comparison_results]

\* One printed row: the ttfb_duration of each sample, in milliseconds.
Row(series) == [k \in 1..Len(series) |-> series[k].ttfb_duration]

Render ==
    /\ pc = "loop"
    /\ widx > Len(services)
    /\ IF /\ IsSome(comparison_results)
          /\ \E ip \in DOMAIN results : ip \notin DOMAIN Unwrap(comparison_results)
       THEN /\ pc' = "panicked"
            /\ table' = table
       ELSE /\ pc' = "write"
            /\ table' =
                 [ip \in DOMAIN results |->
                    [target |-> Row(results[ip]),
                     comparison |->
                        IF IsSome(comparison_results)
                        THEN Some(Row(Unwrap(comparison_results)[ip]))
                        ELSE None]]
    /\ UNCHANGED <<args, runtime, results, comparison_results, widx, phase, req, i, buf,
                   inflight, err, files, log, conns>>

\* What the three file system calls of start() can come to: create_dir_all
\* fails, File::create fails, to_writer fails partway, the process is
\* killed while writing (past the file size limit), or all is written.
WriteOutcomes == {"no dir", "no file", "cut", "killed", "written"}

\* A snapshot file: the output it was written from and whether all of its
\* JSON is there.
Snapshot(output, whole) == [data |-> output, whole |-> whole]

Write ==
    /\ pc = "write"
    /\ IF IsSome(args.output_dir)
       THEN \E outcome \in WriteOutcomes :
               /\ files' =
                     IF outcome \in {"no dir", "no file"} THEN files
                     ELSE Append(files, Snapshot(Output, outcome = "written"))
               /\ pc' = IF outcome = "written" THEN "done"
                        ELSE IF outcome = "killed" THEN "killed"
                        ELSE "failed"
               /\ err' = IF outcome \in {"no dir", "no file", "cut"}
                         THEN Some("io error") ELSE err
       ELSE /\ pc' = "done"
            /\ UNCHANGED <<files, err>>
    /\ UNCHANGED <<args, runtime, results, comparison_results, widx, phase, req, i, buf,
                   inflight, table, log, conns>>

(***************************************************************************)
(* A call of the orchestrator that does not reach its service               *)
(***************************************************************************)
TtfbProbes(url, d) == {Ok(TtfbOutcome(url, d)), Err("ttfb")}
Exchanges == {Err("send")} \cup {Ok(st) : st \in Statuses}

Reply(c, r) ==
    /\ inflight' = (inflight \ {c}) \cup {[c EXCEPT !.reply = Some(r)]}
    /\ UNCHANGED <<args, runtime, results, comparison_results, pc, widx, phase, req, i,
                   buf, err, table, files, log, conns>>

\* The service cannot be reached: send() itself fails.
Unreachable ==
    \E c \in inflight :
       /\ c.reply = None
       /\ \A d \in DOMAIN conns : conns[d].call # c.id
       /\ Reply(c, Err("connect"))

(***************************************************************************)
(* The service alone: service/src/main.rs on the requests it can be sent   *)
(***************************************************************************)
Latencies == {1, 2}

ServiceMethods ==
    {GET, <<"g","e","t">>, POST, <<"P","o","s","t">>, PUT, DELETE,
     <<"H","E","A","D">>, << >>,
     <<"p","o","U+017F","t">>, <<"p","o","U+FB06">>, <<"U+00DF">>}

TtfbRequests == [target : Urls]
DurationRequests ==
    [target : {TargetUrl},
     method : ServiceMethods,
     headers : {None} \cup {Some(h) : h \in HeaderMaps},
     body : {None} \cup {Some(b) : b \in Bodies}]

Conns == 1..MaxConns

\* The orchestrator is not running.
NoArgs ==
    [target_request_url |-> None, target_request_method |-> None,
     target_request_body |-> None, target_request_headers |-> None,
     comparison_url |-> None, services |-> None, times |-> 0, delay |-> 0,
     output_dir |-> None, flood |-> FALSE]

InitService ==
    /\ args = NoArgs
    /\ runtime = None
    /\ results = EmptyMap
    /\ comparison_results = None
    /\ pc = "off"
    /\ widx = 1
    /\ phase = "target"
    /\ req = None
    /\ i = 0
    /\ buf = << >>
    /\ inflight = {}
    /\ err = None
    /\ table = EmptyMap
    /\ files = << >>
    /\ log = << >>
    /\ conns = [c \in Conns |-> IdleConn]

\* A handler is polled on a thread of the scheduler: one must be free.
SchedulerFree ==
    Cardinality({c \in DOMAIN conns : conns[c].thread = "scheduler"})
       < SchedulerThreads

Blocking(c) == conns[c].pc = "blocking"

\* The router hands a POST /ttfb to measure_ttfb, a POST /duration to
\* measure_duration, with the JSON body extracted.
Arrive(c, endpoint, t, call) ==
    /\ conns[c].pc = "idle"
    /\ SchedulerFree
    /\ conns' = [conns EXCEPT ![c] =
                   [IdleConn EXCEPT !.pc = "accepted", !.endpoint = endpoint,
                                    !.json = Some(t), !.call = call,
                                    !.late = \E d \in DOMAIN conns : Blocking(d)]]
    /\ UNCHANGED clientVars

ArriveTtfb(c) == \E t \in TtfbRequests : Arrive(c, "/ttfb", t, 0)

ArriveDuration(c) == \E t \in DurationRequests : Arrive(c, "/duration", t, 0)

\* What the target takes to answer: the n-th call of an orchestrator's run
\* takes n ms, so that a sample tells which call made it.
LatenciesOf(c) == IF conns[c].call = 0 THEN Latencies ELSE {conns[c].call}

\* (mutant) ttfb() is called in the handler itself: the probe blocks the
\* scheduler thread that polls the handler.
TtfbInline(c) ==
    /\ conns[c].pc = "accepted"
    /\ conns[c].endpoint = "/ttfb"
    /\ SchedulerFree
    /\ conns' = [conns EXCEPT ![c].pc = "blocking", ![c].thread = "scheduler"]
    /\ UNCHANGED clientVars

\* measure_ttfb: task::spawn_blocking hands the probe to the blocking pool,
\* then handle.await yields the scheduler thread.
TtfbSpawn(c) ==
    /\ conns[c].pc = "accepted"
    /\ conns[c].endpoint = "/ttfb"
    /\ SchedulerFree
    /\ conns' = [conns EXCEPT ![c].pc = "blocking", ![c].thread = "pool"]
    /\ UNCHANGED clientVars

\* The closure given to spawn_blocking ends: ttfb() returned, or it panicked
\* (joined = FALSE). Its thread is free again.
BlockingEnd(c) ==
    /\ conns[c].pc = "blocking"
    /\ \E joined \in BOOLEAN, d \in LatenciesOf(c) :
          \E probe \in TtfbProbes(Unwrap(conns[c].json).target, d) :
             conns' = [conns EXCEPT
                         ![c].pc = "joined",
                         ![c].thread = "none",
                         ![c].env = Some([joined |-> joined, probe |-> probe])]
    /\ UNCHANGED clientVars

\* handle.await returns in the handler that spawned the task.
TtfbJoin(c) ==
    /\ conns[c].pc = "joined"
    /\ SchedulerFree
    /\ conns' = [conns EXCEPT
                   ![c].pc = "done",
                   ![c].result = Some(measure_ttfb(Unwrap(conns[c].env).joined,
                                                   Unwrap(conns[c].env).probe))]
    /\ UNCHANGED clientVars

\* measure_duration up to request_builder.send()
DurationSend(c) ==
    /\ conns[c].pc = "accepted"
    /\ conns[c].endpoint = "/duration"
    /\ SchedulerFree
    /\ LET built == BuildDurationRequest(Unwrap(conns[c].json))
       IN  IF built.ok
           THEN conns' = [conns EXCEPT ![c].pc = "sending",
                                       ![c].sent = Some(built.val)]
           ELSE conns' = [conns EXCEPT ![c].pc = "done",
                                       ![c].result = Some(built)]
    /\ UNCHANGED clientVars

\* measure_duration from the return of send().await on
DurationReturn(c) ==
    /\ conns[c].pc = "sending"
    /\ SchedulerFree
    /\ \E exchange \in Exchanges, d \in LatenciesOf(c) :
          conns' = [conns EXCEPT
                      ![c].pc = "done",
                      ![c].env = Some([exchange |-> exchange, duration |-> d]),
                      ![c].result = Some(DurationResult(exchange, d))]
    /\ UNCHANGED clientVars

NextService ==
    \E c \in Conns :
       \/ ArriveTtfb(c)
       \/ ArriveDuration(c)
       \/ TtfbSpawn(c)
       \/ BlockingEnd(c)
       \/ TtfbJoin(c)
       \/ DurationSend(c)
       \/ DurationReturn(c)

SpecService == InitService /\ [][NextService]_vars

(***************************************************************************)
(* The service with several requests at once, drawn from a few            *)
(***************************************************************************)
PoolConns == 1..(MaxConns + 1)

PlainRequests ==
    [target : {TargetUrl}, method : {GET, POST}, headers : {None},
     body : {None, Some("{oops")}]

InitPool ==
    /\ args = NoArgs
    /\ runtime = None
    /\ results = EmptyMap
    /\ comparison_results = None
    /\ pc = "off"
    /\ widx = 1
    /\ phase = "target"
    /\ req = None
    /\ i = 0
    /\ buf = << >>
    /\ inflight = {}
    /\ err = None
    /\ table = EmptyMap
    /\ files = << >>
    /\ log = << >>
    /\ conns = [c \in PoolConns |-> IdleConn]

ArrivePlain(c) == \E t \in PlainRequests : Arrive(c, "/duration", t, 0)

NextPool ==
    \E c \in PoolConns :
       \/ ArriveTtfb(c)
       \/ ArrivePlain(c)
       \/ TtfbSpawn(c)
       \/ BlockingEnd(c)
       \/ TtfbJoin(c)
       \/ DurationSend(c)
       \/ DurationReturn(c)

SpecPool == InitPool /\ [][NextPool]_vars

(***************************************************************************)
(* The orchestrator run, its calls handled by the service                  *)
(***************************************************************************)
Accepted(call) == \E c \in DOMAIN conns : conns[c].call = call.id

\* A call of the run reaches the service it is addressed to, which hands it
\* to a handler; the orchestrator has one call out at a time, so the
\* requests being handled are those of the service it is calling.
ArriveCall ==
    \E call \in inflight :
       /\ call.reply = None
       /\ ~Accepted(call)
       /\ \E c \in Conns :
             /\ \A d \in Conns : conns[d].pc = "idle" => c <= d
             /\ Arrive(c, call.req.endpoint, call.req.json, call.id)

\* The handler returned: its result goes back to the caller as the HTTP
\* response, and the request is over.
Respond(c) ==
    /\ conns[c].pc = "done"
    /\ \E call \in inflight :
          /\ call.id = conns[c].call
          /\ inflight' = (inflight \ {call}) \cup
                {[call EXCEPT !.reply =
                     Some(Ok(HttpReply(Unwrap(conns[c].result))))]}
    /\ conns' = [conns EXCEPT ![c] = IdleConn]
    /\ UNCHANGED <<args, runtime, results, comparison_results, pc, widx, phase, req,
                   i, buf, err, table, files, log>>

Handle ==
    \E c \in Conns :
       \/ TtfbSpawn(c)
       \/ BlockingEnd(c)
       \/ TtfbJoin(c)
       \/ DurationSend(c)
       \/ DurationReturn(c)
       \/ Respond(c)

Next ==
    \/ RunWorker
    \/ Send
    \/ Recv
    \/ Sleep
    \/ MeasureReturn
    \/ Render
    \/ Write
    \/ ArriveCall
    \/ Handle
    \/ Unreachable

Spec == Init /\ [][Next]_vars

\* The orchestrator's task is run whenever it can take a step, and every
\* call sent gets its return, a response or an error.
OrchestratorStep ==
    RunWorker \/ Send \/ Recv \/ Sleep \/ MeasureReturn \/ Render \/ Write
CallReturns == ArriveCall \/ Handle \/ Unreachable

SpecLive ==
    Init /\ [][Next]_vars /\ WF_vars(OrchestratorStep) /\ WF_vars(CallReturns)

(***************************************************************************)
(* Properties of the orchestrator (under Spec)                             *)
(***************************************************************************)
ValidationMsg == "body is only supported for POST requests"

\* The events of one series: the calls of one measure(), made for the
\* service at position p of the list and for one phase.
InSeries(e, p, ph) == e.pos = p /\ e.phase = ph
IsOkOf(e, p, ph) == e.ev = "ok" /\ InSeries(e, p, ph)
OkEvents(p, ph) == SelectSeq(log, LAMBDA e : e.ev = "ok" /\ e.pos = p /\ e.phase = ph)
\* The samples the calls of a series returned, in the order they returned.
OkSamples(p, ph) == [k \in 1..Len(OkEvents(p, ph)) |-> Unwrap(OkEvents(p, ph)[k].res)]
SendsOf(p, ph) == {n \in 1..Len(log) : log[n].ev = "send" /\ InSeries(log[n], p, ph)}
Positions == IF IsSome(runtime) THEN 1..Len(services) ELSE {}
Phases == {"target", "comparison"}

HasBodyNotPost ==
    /\ args.target_request_body # None
    /\ UnwrapOr(args.target_request_method, GET) # POST

NoCallAndValidationError ==
    /\ NSends = 0
    /\ inflight = {}
    /\ pc \in {"loop", "failed"}
    /\ pc = "failed" => err = Some(ValidationMsg)

\* A run of the collector: Runtime::new built the Runtime, with its jobs,
\* that start() runs.
IsRun == IsSome(runtime)

\* C1 (as claimed): every run whose request has a body and a method other
\* than "POST" fails with the validation error and never issues a call.
C1_AnyRunFailsValidation ==
    (IsRun /\ HasBodyNotPost) => NoCallAndValidationError

\* C1 (amended): every run over at least one service whose request has a
\* body and a method other than "POST" fails with the validation error, and
\* no call to any service is issued in that run.
C1_ValidationBeforeAnyCall ==
    (IsRun /\ HasBodyNotPost /\ Len(services) > 0) => NoCallAndValidationError

C1_Witness ==
    /\ IsRun
    /\ HasBodyNotPost
    /\ Len(services) > 0
    /\ pc = "failed"
    /\ err = Some(ValidationMsg)
    /\ NSends = 0

\* C2: a series that completes holds exactly `times` samples, the k-th of
\* them being the response of the k-th call of the series to return; the
\* series stored for a service is such a series.
C2_SeriesInCallOrder ==
    /\ (pc = "measure" /\ i >= times) =>
          /\ Len(buf) = times
          /\ buf = OkSamples(widx, phase)
    /\ \A ip \in DOMAIN results :
          \E p \in Positions :
             /\ services[p] = ip
             /\ Len(results[ip]) = times
             /\ results[ip] = OkSamples(p, "target")
    /\ IsSome(comparison_results) =>
          \A ip \in DOMAIN Unwrap(comparison_results) :
             \E p \in Positions :
                /\ services[p] = ip
                /\ Len(Unwrap(comparison_results)[ip]) = times
                /\ Unwrap(comparison_results)[ip] = OkSamples(p, "comparison")

C2_Witness ==
    /\ IsSome(runtime)
    /\ args.flood
    /\ delay = 500
    /\ times >= 2
    /\ widx = 2
    /\ services[1] \in DOMAIN results
    /\ Len(results[services[1]]) = times
    /\ results[services[1]][1] # results[services[1]][2]

\* C3 (as claimed): when the k-th call of a series fails after k-1 calls of
\* it succeeded, the k-1 samples are in the run's results for that service.
C3_PartialSeriesRetained ==
    (pc = "failed" /\ Len(log) > 0 /\ log[Len(log)].ev = "err"
        /\ log[Len(log)].i >= 1) =>
       LET e == log[Len(log)]
           ip == services[e.pos]
           kept == OkSamples(e.pos, e.phase)
           map == IF e.phase = "target" THEN results
                  ELSE Unwrap(comparison_results)
       IN  /\ ip \in DOMAIN map
           /\ Len(map[ip]) >= Len(kept)
           /\ SubSeq(map[ip], 1, Len(kept)) = kept

\* C4 (as claimed): with the flood toggle set all calls of the run are in
\* flight together and no delay separates them: every call is sent before
\* any call returns and before any delay step.
C4_FloodIsConcurrent ==
    args.flood =>
       \A n, m \in 1..Len(log) :
          (log[n].ev = "send" /\ log[m].ev \in {"ok", "err", "sleep"}) => n < m

\* C5: without flood, a failed call ends the run: it is the last event of
\* the run, no call is in flight after it and the run has failed.
C5_FailureHaltsRun ==
    ~args.flood =>
       \A n \in 1..Len(log) :
          log[n].ev = "err" =>
             /\ n = Len(log)
             /\ pc = "failed"
             /\ IsSome(err)
             /\ inflight = {}

C5_Witness ==
    /\ IsSome(runtime)
    /\ ~args.flood
    /\ Len(services) = 2
    /\ pc = "failed"
    /\ Len(log) > 0
    /\ log[Len(log)].ev = "err"
    /\ log[Len(log)].pos = 1

\* C6: without flood, at most one call is in flight; calls go to the
\* services in list order; and a call to a service is sent only after each
\* earlier service's target series, and comparison series if one is
\* configured, returned all of its `times` samples.
C6_StrictlySequential ==
    ~args.flood =>
       /\ Cardinality(inflight) <= 1
       /\ \A n \in 1..Len(log) :
             log[n].ev = "send" =>
                /\ \A m \in 1..n : log[m].pos <= log[n].pos
                /\ \A p \in 1..(log[n].pos - 1) :
                      /\ Cardinality({m \in 1..n : IsOkOf(log[m], p, "target")})
                            = times
                      /\ IsSome(jobs.comparison_url) =>
                            Cardinality({m \in 1..n : IsOkOf(log[m], p, "comparison")})
                               = times

C6_Witness ==
    /\ IsSome(runtime)
    /\ ~args.flood
    /\ IsSome(jobs.comparison_url)
    /\ times >= 2
    /\ Cardinality(inflight) = 1
    /\ \E c \in inflight : c.pos = 2

\* C7: no call is tried again: a series sends each repetition index at most
\* once, sends at most `times` calls, and sends nothing after one of its
\* calls failed.
C7_NoRetry ==
    \A p \in Positions, ph \in Phases :
       /\ Cardinality(SendsOf(p, ph)) <= times
       /\ \A n, m \in SendsOf(p, ph) : log[n].i = log[m].i => n = m
       /\ \A n \in 1..Len(log) :
             (log[n].ev = "err" /\ InSeries(log[n], p, ph)) =>
                \A m \in SendsOf(p, ph) : m < n

C7_Witness ==
    /\ pc = "failed"
    /\ Len(log) > 0
    /\ log[Len(log)].ev = "err"
    /\ log[Len(log)].i >= 1
    /\ Cardinality(SendsOf(log[Len(log)].pos, log[Len(log)].phase)) = times

(***************************************************************************)
(* Properties of the service (under SpecService)                           *)
(***************************************************************************)
Done(c, endpoint) == conns[c].pc = "done" /\ conns[c].endpoint = endpoint
Result(c) == Unwrap(conns[c].result)
Env(c) == Unwrap(conns[c].env)
Received(c) == Unwrap(conns[c].json)

\* C8: a duration probe whose exchange with the target succeeded answers
\* the HTTP-status error carrying the response's status when the status is
\* outside 200..299, and a sample when it is inside.
C8_StatusDecidesOutcome ==
    \A c \in Conns :
       (Done(c, "/duration") /\ IsSome(conns[c].env) /\ Env(c).exchange.ok) =>
          LET status == Env(c).exchange.val
          IN  IF status \in 200..299
              THEN /\ Result(c).ok
                   /\ Result(c).val.overall_duration = Some(Env(c).duration)
              ELSE /\ ~Result(c).ok
                   /\ Result(c).err = MeasureError("HttpError", status)

C8_Witness ==
    \E c \in Conns :
       /\ Done(c, "/duration")
       /\ IsSome(conns[c].env)
       /\ Env(c).exchange = Ok(404)
       /\ Result(c) = Err(MeasureError("HttpError", 404))

Recognized == {GET, POST, PUT, DELETE}
Unrecognized(m) == to_uppercase(m) \notin Recognized

\* C9: a duration probe whose method is none of GET/POST/PUT/DELETE after
\* upper-casing sends the target the very request it sends for the same
\* probe with method "GET", a GET request, and answers what that probe
\* answers; the method itself is never the cause of an error.
C9_UnknownMethodIsGet ==
    \A c \in Conns :
       (conns[c].endpoint = "/duration" /\ conns[c].pc \in {"sending", "done"}
           /\ Unrecognized(Received(c).method)) =>
          LET asGet == BuildDurationRequest([Received(c) EXCEPT !.method = GET])
          IN  /\ asGet.ok =>
                    /\ conns[c].sent = Some(asGet.val)
                    /\ asGet.val.method = "GET"
                    /\ conns[c].pc = "done" =>
                          Result(c) = DurationResult(Env(c).exchange, Env(c).duration)
              /\ ~asGet.ok =>
                    /\ conns[c].sent = None
                    /\ Result(c) = asGet
              /\ (Received(c).body = None) => IsSome(conns[c].sent)

C9_Witness ==
    \E c \in Conns :
       /\ Done(c, "/duration")
       /\ Received(c).method = <<"H","E","A","D">>
       /\ IsSome(conns[c].sent)
       /\ Unwrap(conns[c].sent).method = "GET"
       /\ Result(c).ok

\* C10: a successful phase-timed probe answers a sample without `overall`
\* whose tcpConnect, httpSend and ttfb are the probe outcome's (relative)
\* durations; a successful duration probe answers a sample with `overall`
\* present, dnsLookup and tlsHandshake absent, tcpConnect, httpSend and ttfb
\* zero and an empty source ip.
C10_SampleShape ==
    \A c \in Conns :
       /\ (Done(c, "/ttfb") /\ Result(c).ok) =>
             LET o == Env(c).probe.val
                 r == Result(c).val
             IN  /\ r.overall_duration = None
                 /\ r.tcp_connect_duration = o.tcp_connect_duration.relative
                 /\ r.http_get_send_duration = o.http_get_send_duration.relative
                 /\ r.ttfb_duration = o.ttfb_duration.relative
       /\ (Done(c, "/duration") /\ Result(c).ok) =>
             LET r == Result(c).val
             IN  /\ r.overall_duration # None
                 /\ r.dns_lookup_duration = None
                 /\ r.tls_handshake_duration = None
                 /\ r.tcp_connect_duration = 0
                 /\ r.http_get_send_duration = 0
                 /\ r.ttfb_duration = 0
                 /\ r.ip = ""

C10_Witness ==
    \E c \in Conns :
       /\ Done(c, "/ttfb")
       /\ Result(c).ok
       /\ Result(c).val.ttfb_duration = 2
       /\ Result(c).val.overall_duration = None

(***************************************************************************)
(* Properties of the service under concurrent requests (under SpecPool)    *)
(***************************************************************************)
\* C11: a blocked /ttfb probe sits on the blocking pool and holds no thread
\* of the scheduler, so that with a probe blocked another request can be
\* accepted and each of its handler's steps taken; and a /ttfb handler
\* answers the outcome of its own probe of its own target.
C11_ProbeOffScheduler ==
    \A c \in DOMAIN conns :
       /\ Blocking(c) =>
             /\ conns[c].thread = "pool"
             /\ \A d \in DOMAIN conns :
                   /\ conns[d].pc = "idle" => ENABLED ArrivePlain(d)
                   /\ (conns[d].pc = "accepted" /\ conns[d].endpoint = "/duration")
                         => ENABLED DurationSend(d)
                   /\ conns[d].pc = "sending" => ENABLED DurationReturn(d)
                   /\ conns[d].pc = "joined" => ENABLED TtfbJoin(d)
       /\ (conns[c].endpoint = "/ttfb" /\ conns[c].pc \in {"joined", "done"}) =>
             /\ Env(c).probe \in
                   UNION {TtfbProbes(Received(c).target, d) : d \in Latencies}
             /\ conns[c].pc = "done" =>
                   Result(c) = measure_ttfb(Env(c).joined, Env(c).probe)

C11_Witness ==
    \E c, d \in DOMAIN conns :
       /\ c # d
       /\ Blocking(c)
       /\ conns[c].thread = "pool"
       /\ conns[d].late
       /\ conns[d].pc = "done"
       /\ Result(d).ok

(***************************************************************************)
(* Properties of the orchestrator, continued (under Spec)                  *)
(***************************************************************************)
\* The loop over the services ended without an error.
LoopDone == (pc = "loop" /\ widx > Len(services)) \/ pc \in {"write", "done"}

OksBefore(n, p, ph) == Cardinality({m \in 1..n : IsOkOf(log[m], p, ph)})

\* C12: with a comparison url configured, the calls of a service's
\* comparison series go to the comparison url, are sent only after the
\* `times` calls of its target series returned, and are followed by the
\* same delay; when the loop over the services has ended, the comparison
\* mapping holds a series of `times` samples for exactly the services of the
\* target mapping, and the lookup made while rendering never fails.
C12_ComparisonParallelsTarget ==
    /\ pc # "panicked"
    /\ \A c \in inflight :
          c.phase = "comparison" =>
             /\ IsSome(jobs.comparison_url)
             /\ c.req.json.target = Unwrap(jobs.comparison_url)
             /\ c.req.service = services[c.pos]
    /\ \A n \in 1..Len(log) :
          /\ (log[n].ev = "send" /\ log[n].phase = "comparison") =>
                OksBefore(n, log[n].pos, "target") = times
          /\ log[n].ev = "sleep" => log[n].ms = delay
    /\ (LoopDone /\ IsSome(jobs.comparison_url)) =>
          /\ DOMAIN Unwrap(comparison_results) = DOMAIN results
          /\ DOMAIN results = {services[p] : p \in Positions}
          /\ \A ip \in DOMAIN results :
                /\ Len(Unwrap(comparison_results)[ip]) = times
                /\ Len(results[ip]) = times

C12_Witness ==
    /\ pc = "done"
    /\ IsSome(jobs.comparison_url)
    /\ times >= 2
    /\ Cardinality(DOMAIN results) = 2
    /\ DOMAIN Unwrap(comparison_results) = DOMAIN results
    /\ \A ip \in DOMAIN results : Len(Unwrap(comparison_results)[ip]) = times

\* The primary latency figure of a sample: `overall` for the sample of a
\* duration probe (the only one that has it), `ttfb` for a phase-timed one.
Primary(sample) ==
    IF IsSome(sample.overall_duration) THEN Unwrap(sample.overall_duration)
    ELSE sample.ttfb_duration

Rendered == pc \in {"write", "done"}

\* C13 (as claimed): every cell of the rendered table, in the target row
\* and in the comparison row, shows the primary latency figure of its
\* sample.
C13_CellsShowPrimaryFigure ==
    Rendered =>
       \A ip \in DOMAIN table :
          /\ Len(table[ip].target) = Len(results[ip])
          /\ \A k \in 1..Len(results[ip]) :
                table[ip].target[k] = Primary(results[ip][k])
          /\ IsSome(table[ip].comparison) =>
                \A k \in 1..Len(Unwrap(comparison_results)[ip]) :
                   Unwrap(table[ip].comparison)[k]
                      = Primary(Unwrap(comparison_results)[ip][k])

\* The HTTP method a call has its url requested with: the phase-timed probe
\* is a GET, the duration probe sends the method it parsed.
RequestedMethod(r) ==
    IF r.endpoint = "/ttfb" THEN "GET" ELSE ParseMethod(r.json.method)

\* C14 (as claimed): whatever method, headers and body the target request
\* has, a call of a comparison series has the comparison url requested with
\* the HTTP GET method.
C14_ComparisonIsGet ==
    \A c \in inflight :
       c.phase = "comparison" => RequestedMethod(c.req) = "GET"

\* Every series of the run is collected: each service has its `times`
\* samples in results, and in comparison_results if a comparison url is
\* configured, and each call behind them returned.
SeriesComplete(map, ph) ==
    \A p \in Positions :
       /\ services[p] \in DOMAIN map
       /\ Len(map[services[p]]) = times
       /\ OksBefore(Len(log), p, ph) = times

RunComplete ==
    /\ SeriesComplete(results, "target")
    /\ IsSome(jobs.comparison_url) =>
          SeriesComplete(Unwrap(comparison_results), "comparison")
    /\ inflight = {}

CallOrValidationFailed ==
    \/ \E n \in 1..Len(log) : log[n].ev = "err"
    \/ err = Some(ValidationMsg)

\* C15: a snapshot file is written at most once, only with an output
\* directory configured and only after every series of the run was
\* collected, and it is written from the run's results, all of it exactly
\* when the run ends completed; the table is rendered only from such a run;
\* after a failed call, a failed validation or a failed Runtime::new nothing
\* is written or rendered.
C15_SnapshotOnlyOfCompletedRun ==
    /\ Len(files) <= 1
    /\ Len(files) = 1 =>
          /\ IsSome(args.output_dir)
          /\ pc \in {"done", "failed", "killed"}
          /\ RunComplete
          /\ files[1].data = Output
          /\ files[1].whole <=> pc = "done"
    /\ (Rendered \/ table # EmptyMap) => RunComplete
    /\ (runtime = None \/ CallOrValidationFailed) =>
          /\ pc = "failed"
          /\ files = << >>
          /\ table = EmptyMap

C15_Witness ==
    /\ Len(files) = 1
    /\ files[1].whole
    /\ pc = "done"
    /\ Len(services) = 2
    /\ services[1] # services[2]
    /\ times >= 2
    /\ IsSome(jobs.comparison_url)
    /\ table # EmptyMap

(***************************************************************************)
(* Termination (under SpecLive)                                            *)
(***************************************************************************)
Terminated == pc \in {"done", "failed", "killed"}

\* C16: when every call sent returns a response or an error, every run
\* ends: it reaches the completed state or the failed state (or, its series
\* collected, is killed while writing the snapshot), and stays there.
C16_RunEnds == <>[]Terminated

C16_Witness ==
    /\ pc = "done"
    /\ Len(services) = 2
    /\ times >= 2
    /\ IsSome(jobs.comparison_url)
    /\ NSends = 8

(***************************************************************************)
(* Properties of the service, continued (under SpecService)                *)
(***************************************************************************)
WellFormedJson == {"{\"a\": 1}", "{\"a\":1}"}
BadRequest == Err(MeasureErrorBadRequest)
Handled(c) == conns[c].pc \in {"sending", "done"}

\* C17: a duration probe whose body is not well-formed JSON answers
\* BadRequest and sends the target nothing; one whose body is well-formed
\* JSON, or that has no body, never answers BadRequest.
C17_BadBodyIsBadRequest ==
    \A c \in Conns :
       (conns[c].endpoint = "/duration" /\ Handled(c)) =>
          LET body == Received(c).body
          IN  IF IsSome(body) /\ Unwrap(body) \notin WellFormedJson
              THEN /\ conns[c].pc = "done"
                   /\ Result(c) = BadRequest
                   /\ conns[c].sent = None
                   /\ conns[c].env = None
              ELSE /\ IsSome(conns[c].sent)
                   /\ conns[c].pc = "done" => Result(c) # BadRequest

C17_Witness ==
    \E c \in Conns :
       /\ Done(c, "/duration")
       /\ Received(c).body = Some("{oops")
       /\ Result(c) = BadRequest
       /\ conns[c].sent = None

(***************************************************************************)
(* Properties of the orchestrator, continued (under Spec)                  *)
(***************************************************************************)
ConfiguredMethod == UnwrapOr(args.target_request_method, GET)
UrlOf(ph) ==
    IF ph = "target" THEN jobs.target_url ELSE Unwrap(args.comparison_url)

\* C18: a call asks for the phase-timed probe (/ttfb, with the url alone)
\* exactly when the configured method, "GET" when none is given, is the
\* string "GET"; with any other string it asks for the duration probe
\* (/duration) with that method, the headers and the body attached.
C18_EndpointByMethod ==
    \A c \in inflight :
       /\ c.req.service = services[c.pos]
       /\ IF ConfiguredMethod = <<"G","E","T">>
          THEN /\ c.req.endpoint = "/ttfb"
               /\ c.req.json = [target |-> UrlOf(c.phase)]
          ELSE /\ c.req.endpoint = "/duration"
               /\ c.req.json = [target |-> UrlOf(c.phase),
                                method |-> ConfiguredMethod,
                                headers |-> args.target_request_headers,
                                body |-> args.target_request_body]

C18_Witness ==
    \E c \in inflight :
       /\ args.target_request_method = Some(<<"g","e","t">>)
       /\ IsSome(args.target_request_headers)
       /\ c.req.endpoint = "/duration"
       /\ c.req.json.method = <<"g","e","t">>

IsSleepOf(e, p, ph) == e.ev = "sleep" /\ InSeries(e, p, ph)
SleepsIn(a, b, p, ph) == Cardinality({m \in a..b : IsSleepOf(log[m], p, ph)})
\* The series is past its last repetition's sleep.
SeriesOver(p, ph) ==
    /\ OksBefore(Len(log), p, ph) = times
    /\ ~(pc = "sleep" /\ widx = p /\ phase = ph)

\* C19: a delay step of length `delay` follows every call that returned a
\* sample, the last of a series included, and nothing else: a series of
\* `times` returned calls has made `times` delay steps, no delay step
\* follows a failed call, and exactly one delay step lies between two
\* consecutive calls of a series.
C19_SleepAfterEveryCall ==
    /\ \A n \in 1..Len(log) :
          /\ log[n].ev = "sleep" =>
                /\ n > 1
                /\ log[n - 1].ev = "ok"
                /\ InSeries(log[n - 1], log[n].pos, log[n].phase)
                /\ log[n - 1].i = log[n].i
                /\ log[n].ms = delay
          /\ log[n].ev = "ok" =>
                IF n = Len(log) THEN pc = "sleep"
                ELSE IsSleepOf(log[n + 1], log[n].pos, log[n].phase)
          /\ log[n].ev = "err" => n = Len(log) /\ pc # "sleep"
    /\ \A p \in Positions : \A ph \in Phases :
          /\ SeriesOver(p, ph) => SleepsIn(1, Len(log), p, ph) = times
          /\ \A m, n \in SendsOf(p, ph) :
                (m < n /\ \A k \in SendsOf(p, ph) : ~(m < k /\ k < n)) =>
                   /\ SleepsIn(m, n, p, ph) = 1
                   /\ Cardinality({k \in m..n : log[k].ev = "sleep"}) = 1

C19_Witness ==
    /\ times = MaxTimes
    /\ delay = 500
    /\ \E p \in Positions :
          /\ SeriesOver(p, "target")
          /\ SleepsIn(1, Len(log), p, "target") = MaxTimes
          /\ log[Len(log)].ev = "sleep"
          /\ log[Len(log)].i = times - 1
    /\ pc = "loop"

Occurrences(a) == {p \in Positions : services[p] = a}
LastOccurrence(a) == CHOOSE p \in Occurrences(a) : \A q \in Occurrences(a) : q <= p

\* C20: when the loop over the services has ended, every position of the
\* list was probed `times` times, and the target mapping has one entry per
\* distinct address of the list: the series collected at the last position
\* holding that address.
C20_KeyedByAddress ==
    LoopDone =>
       /\ DOMAIN results = {services[p] : p \in Positions}
       /\ \A p \in Positions :
             /\ Cardinality(SendsOf(p, "target")) = times
             /\ Len(OkSamples(p, "target")) = times
       /\ \A a \in DOMAIN results :
             results[a] = OkSamples(LastOccurrence(a), "target")

C20_Witness ==
    /\ LoopDone
    /\ Len(services) = 2
    /\ services[1] = services[2]
    /\ Cardinality(DOMAIN results) = 1
    /\ results[services[1]] = OkSamples(2, "target")
    /\ results[services[1]] # OkSamples(1, "target")
    /\ Len(OkSamples(1, "target")) = times

====
